---- MODULE Spec2Model ----
(***************************************************************************)
(* Model of hookt: triggers, bound triggers, trigger groups and the        *)
(* fan-out/join dispatch of listeners (src/hookt.py).                      *)
(*                                                                         *)
(* One class Sample(HooksMixin) carries a TriggerGroup `hooks` and the     *)
(* triggers as class attributes.  Trigger objects live in the slots        *)
(* TriggerIds; the listener sets are the fields of the Trigger they        *)
(* belong to, and a BoundTrigger is the pair of references it is           *)
(* constructed with (the trigger's class set, one entry of the trigger's   *)
(* instance dictionary).                                                   *)
(***************************************************************************)
EXTENDS Integers, Sequences, FiniteSets, TLC

\* ------------------------------------------------------------------------
\* Bounds
\* ------------------------------------------------------------------------
MaxHooks == 2            \* hook calls made in one behaviour
MaxTupleLen == 3         \* longest tuple a wrapped callable returns

\* ------------------------------------------------------------------------
\* The universe of Python objects
\* ------------------------------------------------------------------------
None == "None"
Names == {"ident", "other"}          \* trigger names used with the group
TriggerIds == {"t1"}                 \* Trigger objects that can be created
Listeners == {"L1", "L2"}            \* callback functions
Funcs == {"f1", "f2"}                \* functions decorated as triggers
Instances == {"a", "b", "c"}         \* instances of Sample
InstanceArgs == Instances \cup {None}

\* The (instance, owner) arguments hook is called with.  With an instance
\* given, owner only selects the class the function is bound for.
HookArgs ==
    {<<None, None>>, <<None, "Sample">>, <<"a", "Sample">>}
        \cup {<<i, None>> : i \in Instances}

\* The arguments used when the target already is a bound object.
BoundHookArgs == {<<None, None>>, <<None, "Sample">>, <<"b", None>>}

\* bool(instance), as tested by `not instance` and `instance or owner`
Truthy(instance) == instance # None

\* The dictionary key an instance is: dict lookup goes by __hash__/__eq__.
\* c is a distinct object with c == a and hash(c) == hash(a).
HashKey(instance) == IF instance = "c" THEN "a" ELSE instance

\* ------------------------------------------------------------------------
\* Python values returned by a wrapped callable
\* ------------------------------------------------------------------------
Obj(x) == [type |-> "object", items |-> <<x>>]
Tuple(xs) == [type |-> "tuple", items |-> xs]
NamedTuple(xs) == [type |-> "namedtuple", items |-> xs]   \* a tuple subclass
NoValue == [type |-> "novalue", items |-> <<>>]

\* what the wrapped callables of the invocations return
Results == { Obj("x"), Tuple(<<"x", "y">>) }

\* the values normalization is checked on
Atoms == {"x", "y"}
Items == UNION {[1..k -> Atoms] : k \in 0..MaxTupleLen}
AllResults ==
    {Obj(x) : x \in Atoms \cup {None}}
        \cup {Tuple(xs) : xs \in Items} \cup {NamedTuple(xs) : xs \in Items}

NormalizeLenient(r) ==
    IF r.type \in {"tuple", "namedtuple"} /\ Len(r.items) >= 2
    THEN [i \in 1..Len(r.items) |-> Obj(r.items[i])]
    ELSE <<r>>

\* s = r if type(r) is tuple else (r,)
Normalize(r) ==
    IF r.type = "tuple"
    THEN [i \in 1..Len(r.items) |-> Obj(r.items[i])]
    ELSE <<r>>

\* What a listener returns; the task group discards it.
ListenerResult(l) == IF l = "L1" THEN Obj("y") ELSE Obj(None)

\* ------------------------------------------------------------------------
\* Classes
\* ------------------------------------------------------------------------
\* BaseTrigger declares listeners and hook abstract (ABC).
BaseTriggerAbstract == {"listeners", "hook"}
DummyTriggerDefines == {"__init__", "__get__", "listeners", "__call__"}

\* ABCMeta refuses to instantiate a class that leaves an abstract method
\* unimplemented.
Instantiable(defines) == BaseTriggerAbstract \subseteq defines

\* The names bound when the body of TriggerGroup.trigger.deco runs: its
\* parameter, the closure variable of trigger() and self.  The module has
\* no global h.
DecoBinds == {"f", "name", "self"}

\* ------------------------------------------------------------------------
\* State
\* ------------------------------------------------------------------------
VARIABLES
    hashed_hooks,    \* Sample.hooks._hashed_hooks: name -> trigger slot
    triggers,        \* slot -> the object in it (Trigger, DummyTrigger)
    inv,             \* the invocation in progress or last finished
    nhooks,          \* hook calls made
    audit,           \* whether the registrations are being recorded
    hookedOn,        \* history: the scopes each listener was registered for
    last             \* the exception the last API call raised, or "none"

vars == <<hashed_hooks, triggers, inv, nhooks, audit, hookedOn, last>>

Absent == "absent"

EmptyDict == [k \in {} |-> {}]

NoObject ==
    [kind |-> "none", wrapped |-> None, listeners |-> {},
     il_none |-> TRUE, il |-> EmptyDict]

\* DummyTrigger.__init__
DummyTriggerInit ==
    [kind |-> "DummyTrigger", wrapped |-> None, listeners |-> {},
     il_none |-> TRUE, il |-> EmptyDict]

\* Trigger.__init__(func, listeners): listeners or set()
TriggerInit(func, listeners) ==
    [kind |-> "Trigger", wrapped |-> func, listeners |-> listeners,
     il_none |-> TRUE, il |-> EmptyDict]


\* ------------------------------------------------------------------------
\* Descriptors: what a reference to a trigger is
\* ------------------------------------------------------------------------
\* The object in a slot itself (a Trigger or a DummyTrigger).
Unbound(t) == [t |-> t, bound |-> FALSE, key |-> None, self |-> None]

\* BoundTrigger(func = wrapped.__get__(instance, owner),
\*              listeners = _self_instance_listeners[instance],
\*              class_listeners = _self_listeners)
BoundTrigger(t, instance) ==
    [t |-> t, bound |-> TRUE, key |-> HashKey(instance), self |-> instance]

TriggerGetStateFresh(tr, instance) ==
    IF ~Truthy(instance) THEN tr
    ELSE IF tr.il_none \/ HashKey(instance) \notin DOMAIN tr.il
    THEN [tr EXCEPT !.il_none = FALSE,
                    !.il = [k \in {HashKey(instance)} |-> {}]]
    ELSE tr

\* Trigger.__get__, its effect on the Trigger: the instance dictionary is
\* created on the first bound access and gets an entry per new key.
TriggerGetState(tr, instance) ==
    IF ~Truthy(instance) THEN tr
    ELSE IF tr.il_none \/ DOMAIN tr.il = {}
    THEN [tr EXCEPT !.il_none = FALSE,
                    !.il = [k \in {HashKey(instance)} |-> {}]]
    ELSE IF HashKey(instance) \notin DOMAIN tr.il
    THEN [tr EXCEPT !.il = [k \in DOMAIN tr.il \cup {HashKey(instance)} |->
                               IF k \in DOMAIN tr.il THEN tr.il[k] ELSE {}]]
    ELSE tr

\* Trigger.__get__, the object it returns.
TriggerGetView(t, instance) ==
    IF ~Truthy(instance) THEN Unbound(t) ELSE BoundTrigger(t, instance)

\* view.__get__(instance, owner) for any trigger object: DummyTrigger and
\* BoundTrigger return self.
GetState(trs, view, instance) ==
    IF ~view.bound /\ trs[view.t].kind = "Trigger"
    THEN [trs EXCEPT ![view.t] = TriggerGetState(@, instance)]
    ELSE trs

GetView(trs, view, instance) ==
    IF ~view.bound /\ trs[view.t].kind = "Trigger"
    THEN TriggerGetView(view.t, instance)
    ELSE view

\* ------------------------------------------------------------------------
\* listeners
\* ------------------------------------------------------------------------
\* BoundTrigger.listeners: _self_listeners | _self_class_listeners, a new set
BoundListenersOwnOnly(trs, view) == trs[view.t].il[view.key]

BoundListeners(trs, view) ==
    trs[view.t].il[view.key] \cup trs[view.t].listeners

ViewListenersAll(trs, view) ==
    IF view.bound THEN BoundListeners(trs, view)
    ELSE trs[view.t].listeners
            \cup UNION {trs[view.t].il[k] : k \in DOMAIN trs[view.t].il}

\* Trigger.listeners and DummyTrigger.listeners: the set object itself
ViewListeners(trs, view) ==
    IF view.bound THEN BoundListeners(trs, view) ELSE trs[view.t].listeners

\* ------------------------------------------------------------------------
\* hook
\* ------------------------------------------------------------------------
\* BoundTrigger.hook: self._self_listeners.add(callback)
BoundTriggerHook(trs, view, callback) ==
    [trs EXCEPT ![view.t].il[view.key] = @ \cup {callback}]

\* Trigger.hook without instance and owner: self._self_listeners.add(callback)
ClassHook(trs, t, callback) ==
    [trs EXCEPT ![t].listeners = @ \cup {callback}]

\* view.hook(callback) for any trigger object.  DummyTrigger does not
\* override hook: the inherited BaseTrigger.hook is `pass`.
ViewHook(trs, view, callback) ==
    IF view.bound THEN BoundTriggerHook(trs, view, callback)
    ELSE IF trs[view.t].kind = "Trigger" THEN ClassHook(trs, view.t, callback)
    ELSE trs

TriggerHookClassOnly(trs, t, callback, instance, owner) ==
    ClassHook(trs, t, callback)

\* Trigger.hook(callback, instance, owner)
TriggerHook(trs, t, callback, instance, owner) ==
    IF Truthy(instance) \/ owner # None
    THEN ViewHook(GetState(trs, Unbound(t), instance),
                  GetView(trs, Unbound(t), instance), callback)
    ELSE ClassHook(trs, t, callback)

\* hook(t, instance, owner)(f), the module-level decorator
ModuleHook(trs, view, instance, owner, callback) ==
    IF Truthy(instance) \/ owner # None
    THEN ViewHook(GetState(trs, view, instance),
                  GetView(trs, view, instance), callback)
    ELSE ViewHook(trs, view, callback)

\* ------------------------------------------------------------------------
\* TriggerGroup
\* ------------------------------------------------------------------------
FreeSlots(trs) == {t \in TriggerIds : trs[t].kind = "none"}
NewSlot(trs) == CHOOSE t \in TriggerIds : t \in FreeSlots(trs) \/ FreeSlots(trs) = {}

\* Every def statement makes a new function object: the function being
\* decorated is one no Trigger wraps yet.
NewFunc(trs) ==
    CHOOSE f \in Funcs : \A t \in TriggerIds : trs[t].wrapped # f

Outcome(err, hh, trs) == [err |-> err, hh |-> hh, trs |-> trs]

\* TriggerGroup.trigger(name)(f)
DecoOverwrites(hh, trs, name, f) ==
    IF hh[name] # Absent
    THEN Outcome("NameError",
                 hh, [trs EXCEPT ![hh[name]] = TriggerInit(f, {})])
    ELSE Outcome("none", [hh EXCEPT ![name] = NewSlot(trs)],
                 [trs EXCEPT ![NewSlot(trs)] = TriggerInit(f, {})])

Deco(hh, trs, name, f) ==
    IF hh[name] # Absent
    THEN \* f = self._hashed_hooks[name]; then isinstance(h, Trigger)
         IF "h" \notin DecoBinds
         THEN Outcome("NameError", hh, trs)
         ELSE IF trs[hh[name]].kind = "Trigger"
              THEN Outcome("ValueError", hh, trs)
              ELSE Outcome("none", hh, trs)   \* Trigger(f, h.listeners), not stored
    ELSE Outcome("none", [hh EXCEPT ![name] = NewSlot(trs)],
                 [trs EXCEPT ![NewSlot(trs)] = TriggerInit(f, {})])

\* TriggerGroup.hook(name, instance, owner)(f)
TriggerGroupHook(hh, trs, name, instance, owner, callback) ==
    IF hh[name] = Absent
    THEN \* self._hashed_hooks[name] = h = DummyTrigger()
         IF ~Instantiable(DummyTriggerDefines)
         THEN Outcome("TypeError", hh, trs)
         ELSE Outcome("none", [hh EXCEPT ![name] = NewSlot(trs)],
                      ModuleHook([trs EXCEPT ![NewSlot(trs)] = DummyTriggerInit],
                                 Unbound(NewSlot(trs)), instance, owner, callback))
    ELSE Outcome("none", hh,
                 ModuleHook(trs, Unbound(hh[name]), instance, owner, callback))

\* BoundTriggerGroup.hook(name, instance, owner)(f) on the bound group of
\* `self`: super().hook(name, instance or self.instance, owner or self.owner)
BoundTriggerGroupHook(hh, trs, self, name, instance, owner, callback) ==
    TriggerGroupHook(hh, trs, name,
                     IF Truthy(instance) THEN instance ELSE self,
                     IF owner # None THEN owner ELSE "Sample",
                     callback)

\* instance.hooks.hook(name, instance, owner)(f): TriggerGroup.__get__ gives
\* the group itself for a falsy instance and a BoundTriggerGroup otherwise.
HooksAttrHook(hh, trs, self, name, instance, owner, callback) ==
    IF ~Truthy(self)
    THEN TriggerGroupHook(hh, trs, name, instance, owner, callback)
    ELSE BoundTriggerGroupHook(hh, trs, self, name, instance, owner, callback)


\* ------------------------------------------------------------------------
\* BaseTrigger.__call__: one invocation
\* ------------------------------------------------------------------------
Final == {"none", "done", "failed", "cancelled"}

NoTasks == [l \in Listeners |-> "none"]
NoCalls == [l \in Listeners |-> <<>>]

IdleInvocation ==
    [pc |-> "idle", view |-> Unbound("t1"), via |-> None, cls0 |-> {},
     r |-> NoValue, live |-> FALSE, snap |-> {}, visited |-> {},
     task |-> NoTasks, calls |-> NoCalls, ret |-> NoValue, err |-> "none"]

\* The call has been made: r = await self.__wrapped__(*args, **kwargs) is
\* pending and nothing else of the body has run.
BeginEager(trs, view, via) ==
    [IdleInvocation EXCEPT !.pc = "loop", !.view = view, !.via = via,
                           !.cls0 = trs[view.t].listeners,
                           !.live = ~view.bound,
                           !.snap = ViewListeners(trs, view)]

Begin(trs, view, via) ==
    [IdleInvocation EXCEPT !.pc = "wrapped", !.view = view, !.via = via]

\* DummyTrigger.__call__: raise TypeError("Trigger has not been defined yet")
BeginDummy(trs, view, via) ==
    [IdleInvocation EXCEPT !.pc = "raised", !.view = view, !.via = via,
                           !.err = "TypeError"]

\* A child task raised, or the loop did: the task group's scope is cancelled.
ScopeCancelled(i) ==
    i.err # "none" \/ \E l \in Listeners : i.task[l] = "failed"

\* The set iterator of `for f in self.listeners` finds the set resized.
\* The iterator is created and first advanced without a suspension between:
\* a resize can only be found once a spawn has been awaited.
SetChanged(trs, i) ==
    /\ i.live
    /\ i.visited # {}
    /\ Cardinality(trs[i.view.t].listeners) # Cardinality(i.snap)

\* __aexit__ of the task group returns once every child task has finished.
JoinReadyAlways(i) == TRUE

JoinReady(i) == \A l \in Listeners : i.task[l] \in Final

\* return r
CallReturnLast(i) ==
    IF \E l \in Listeners : i.task[l] = "done"
    THEN ListenerResult(CHOOSE l \in Listeners : i.task[l] = "done")
    ELSE i.r

CallReturn(i) == i.r

CancelNothing(task) == task

\* Cancelling the scope: the children that are running are cancelled.
CancelRunning(task) ==
    [l \in Listeners |-> IF task[l] = "running" THEN "cancelling" ELSE task[l]]

----------------------------------------------------------------------------
Init ==
    /\ hashed_hooks = [n \in Names |-> Absent]
    /\ triggers = [t \in TriggerIds |-> NoObject]
    /\ inv = IdleInvocation
    /\ nhooks = 0
    /\ audit = FALSE
    /\ hookedOn = [l \in Listeners |-> {}]
    /\ last = "none"

\* Between `return r` (or the raise) and the caller's next statement nothing
\* else runs, and nothing runs between the read of self.listeners and the
\* first step of the for loop.
CanCall ==
    /\ inv.pc \notin {"returned", "raised"}
    /\ ~(inv.pc = "loop" /\ inv.visited = {})

CanHook == CanCall /\ nhooks < MaxHooks

CanInvoke == inv.pc = "idle"

Start(trs, view, via) ==
    /\ CanInvoke
    /\ inv' = IF trs[view.t].kind = "DummyTrigger" /\ ~view.bound
              THEN BeginDummy(trs, view, via)
              ELSE Begin(trs, view, via)
    /\ last' = "none"

\* trigger(f): a Trigger that is not in the group
ModuleTrigger(f) ==
    /\ CanCall
    /\ f = NewFunc(triggers)
    /\ FreeSlots(triggers) # {}
    /\ triggers' = [triggers EXCEPT ![NewSlot(triggers)] = TriggerInit(f, {})]
    /\ last' = "none"
    /\ UNCHANGED <<hashed_hooks, inv, nhooks, audit, hookedOn>>

Apply(out) ==
    /\ hashed_hooks' = out.hh
    /\ triggers' = out.trs
    /\ last' = out.err

\* Sample.hooks.trigger(name)(f)
GroupTrigger(name, f) ==
    /\ CanCall
    /\ f = NewFunc(triggers)
    /\ hashed_hooks[name] = Absent => FreeSlots(triggers) # {}
    /\ Apply(Deco(hashed_hooks, triggers, name, f))
    /\ UNCHANGED <<inv, nhooks, audit, hookedOn>>

\* HooksMixin.trigger: instance.trigger(name)(f), that is
\* instance.hooks.trigger(name)(f) on the shared registry
MixinTrigger(self, name, f) ==
    /\ CanCall
    /\ f = NewFunc(triggers)
    /\ hashed_hooks[name] = Absent => FreeSlots(triggers) # {}
    /\ Apply(Deco(hashed_hooks, triggers, name, f))
    /\ UNCHANGED <<inv, nhooks, audit, hookedOn>>

\* The scope a registration is asked for: the instance it names, else the
\* instance of the bound object it goes through, else the class.
Scope(self, instance) ==
    IF instance # None THEN instance ELSE IF self # None THEN self ELSE "class"

\* The name a hook call gives, when the registry has no entry for it at the
\* call.
ForwardName(name) ==
    IF name # None /\ hashed_hooks[name] = Absent THEN name ELSE None

\* The history of hook calls, kept when audit is on: the scope asked for,
\* whether the call went by name through an instance without naming a
\* scope, and whether it named a name that was absent then (and which).
Record(callback, self, instance, route, name) ==
    /\ nhooks' = nhooks + 1
    /\ audit' = audit
    /\ hookedOn' =
          IF audit
          THEN [hookedOn EXCEPT ![callback] =
                   @ \cup {[scope |-> Scope(self, instance), route |-> route,
                            forward |-> ForwardName(name) # None,
                            name |-> ForwardName(name)]}]
          ELSE hookedOn

\* t.hook(callback, instance, owner) on a Trigger
DoTriggerHook(t, callback, instance, owner) ==
    /\ CanHook
    /\ triggers[t].kind = "Trigger"
    /\ triggers' = TriggerHook(triggers, t, callback, instance, owner)
    /\ last' = "none"
    /\ Record(callback, None, instance, "direct", None)
    /\ UNCHANGED <<hashed_hooks, inv>>

\* hook(t, instance, owner)(callback) where t is a Trigger (via = None) or
\* the BoundTrigger that via.attr evaluates to
DoModuleHook(t, via, callback, instance, owner) ==
    /\ CanHook
    /\ triggers[t].kind = "Trigger"
    /\ via # None => <<instance, owner>> \in BoundHookArgs
    /\ triggers' = ModuleHook(GetState(triggers, Unbound(t), via),
                              GetView(triggers, Unbound(t), via),
                              instance, owner, callback)
    /\ last' = "none"
    /\ Record(callback, via, IF via # None THEN None ELSE instance,
              "direct", None)
    /\ UNCHANGED <<hashed_hooks, inv>>

\* Sample.hooks.hook(name, instance, owner)(callback)
DoGroupHook(name, callback, instance, owner) ==
    /\ CanHook
    /\ Apply(TriggerGroupHook(hashed_hooks, triggers, name, instance, owner, callback))
    /\ Record(callback, None, instance, "direct", name)
    /\ UNCHANGED inv

\* self.hooks.hook(name, instance, owner)(callback)
DoHooksAttrHook(self, name, callback, instance, owner) ==
    /\ CanHook
    /\ <<instance, owner>> \in BoundHookArgs
    /\ Apply(HooksAttrHook(hashed_hooks, triggers, self, name, instance, owner, callback))
    /\ Record(callback, self, instance,
              IF instance = None /\ owner = None THEN "byname" ELSE "direct",
              name)
    /\ UNCHANGED inv

\* HooksMixin.hook: self.hook(name)(callback)
DoMixinHook(self, name, callback) ==
    /\ CanHook
    /\ Apply(HooksAttrHook(hashed_hooks, triggers, self, name, None, None, callback))
    /\ Record(callback, self, None, "byname", name)
    /\ UNCHANGED inv

\* instance.attr where attr is the class attribute holding Trigger t
Access(t, instance) ==
    /\ CanCall
    /\ triggers[t].kind = "Trigger"
    /\ triggers' = GetState(triggers, Unbound(t), instance)
    /\ triggers' # triggers
    /\ last' = "none"
    /\ UNCHANGED <<hashed_hooks, inv, nhooks, audit, hookedOn>>

\* t(...) on the Trigger itself (standalone, or Sample.attr(...))
InvokeTrigger(t) ==
    /\ triggers[t].kind = "Trigger"
    /\ Start(triggers, Unbound(t), None)
    /\ UNCHANGED <<hashed_hooks, triggers, nhooks, audit, hookedOn>>

\* instance.attr(...)
InvokeAttr(t, instance) ==
    /\ triggers[t].kind = "Trigger"
    /\ triggers' = GetState(triggers, Unbound(t), instance)
    /\ Start(GetState(triggers, Unbound(t), instance),
             GetView(triggers, Unbound(t), instance), instance)
    /\ UNCHANGED <<hashed_hooks, nhooks, audit, hookedOn>>

\* instance.hooks[name](...): TriggerGroup.__getitem__ for a falsy instance,
\* BoundTriggerGroup.__getitem__ otherwise
InvokeItem(instance, name) ==
    /\ hashed_hooks[name] # Absent
    /\ triggers' = GetState(triggers, Unbound(hashed_hooks[name]), instance)
    /\ Start(GetState(triggers, Unbound(hashed_hooks[name]), instance),
             GetView(triggers, Unbound(hashed_hooks[name]), instance), instance)
    /\ UNCHANGED <<hashed_hooks, nhooks, audit, hookedOn>>

\* the wrapped callable returns r; s is computed and the loop is entered
WrappedReturns(r) ==
    /\ inv.pc = "wrapped"
    /\ inv' = [inv EXCEPT !.pc = "loop", !.r = r,
                          !.cls0 = triggers[inv.view.t].listeners,
                          !.live = ~inv.view.bound,
                          !.snap = ViewListeners(triggers, inv.view)]
    /\ UNCHANGED <<hashed_hooks, triggers, nhooks, audit, hookedOn, last>>

WrappedFailsSwallowed ==
    /\ inv.pc = "wrapped"
    /\ inv' = [inv EXCEPT !.pc = "loop", !.err = "WrappedError",
                          !.snap = ViewListeners(triggers, inv.view)]
    /\ UNCHANGED <<hashed_hooks, triggers, nhooks, audit, hookedOn, last>>

\* the wrapped callable raises
WrappedFails ==
    /\ inv.pc = "wrapped"
    /\ inv' = [inv EXCEPT !.pc = "raised", !.err = "WrappedError"]
    /\ UNCHANGED <<hashed_hooks, triggers, nhooks, audit, hookedOn, last>>

\* for f in self.listeners: await tg.spawn(f, *s)
LoopSpawn(l) ==
    /\ inv.pc = "loop"
    /\ ~SetChanged(triggers, inv)
    /\ l \in inv.snap \ inv.visited
    /\ inv' = [inv EXCEPT !.visited = @ \cup {l}, !.task[l] = "spawned"]
    /\ UNCHANGED <<hashed_hooks, triggers, nhooks, audit, hookedOn, last>>

\* the iterator is exhausted: the body of the async with ends
LoopEnd ==
    /\ inv.pc = "loop"
    /\ ~SetChanged(triggers, inv)
    /\ inv.snap \ inv.visited = {}
    /\ inv' = [inv EXCEPT !.pc = "join"]
    /\ UNCHANGED <<hashed_hooks, triggers, nhooks, audit, hookedOn, last>>

\* RuntimeError: Set changed size during iteration
LoopRaises ==
    /\ inv.pc = "loop"
    /\ SetChanged(triggers, inv)
    /\ inv' = [inv EXCEPT !.pc = "join", !.err = "RuntimeError",
                          !.task = CancelRunning(@)]
    /\ UNCHANGED <<hashed_hooks, triggers, nhooks, audit, hookedOn, last>>

\* the host task is cancelled at `await tg.spawn` after a child has failed
LoopCancelled ==
    /\ inv.pc = "loop"
    /\ ScopeCancelled(inv)
    /\ inv' = [inv EXCEPT !.pc = "join"]
    /\ UNCHANGED <<hashed_hooks, triggers, nhooks, audit, hookedOn, last>>

\* a spawned listener task starts: f(*s)
ListenerStart(l) ==
    /\ inv.task[l] = "spawned"
    /\ inv' = [inv EXCEPT !.task[l] = IF ScopeCancelled(inv) THEN "cancelling"
                                      ELSE "running",
                          !.calls[l] = Append(@, Normalize(inv.r))]
    /\ UNCHANGED <<hashed_hooks, triggers, nhooks, audit, hookedOn, last>>

\* a task spawned into a cancelled scope is dropped before its first step
ListenerDropped(l) ==
    /\ inv.task[l] = "spawned"
    /\ ScopeCancelled(inv)
    /\ inv' = [inv EXCEPT !.task[l] = "cancelled"]
    /\ UNCHANGED <<hashed_hooks, triggers, nhooks, audit, hookedOn, last>>

ListenerDone(l) ==
    /\ inv.task[l] = "running"
    /\ inv' = [inv EXCEPT !.task[l] = "done"]
    /\ UNCHANGED <<hashed_hooks, triggers, nhooks, audit, hookedOn, last>>

\* a listener raises: the task group cancels the scope
ListenerFails(l) ==
    /\ inv.task[l] = "running"
    /\ inv' = [inv EXCEPT !.task = CancelRunning([@ EXCEPT ![l] = "failed"])]
    /\ UNCHANGED <<hashed_hooks, triggers, nhooks, audit, hookedOn, last>>

\* a cancelled listener finishes unwinding
ListenerSettles(l) ==
    /\ inv.task[l] = "cancelling"
    /\ inv' = [inv EXCEPT !.task[l] = "cancelled"]
    /\ UNCHANGED <<hashed_hooks, triggers, nhooks, audit, hookedOn, last>>

\* the task group exits without an exception: return r
JoinReturns ==
    /\ inv.pc = "join"
    /\ JoinReady(inv)
    /\ ~ScopeCancelled(inv)
    /\ inv' = [inv EXCEPT !.pc = "returned", !.ret = CallReturn(inv)]
    /\ UNCHANGED <<hashed_hooks, triggers, nhooks, audit, hookedOn, last>>

\* the task group exits with the exception of the loop or of a listener
JoinRaises ==
    /\ inv.pc = "join"
    /\ JoinReady(inv)
    /\ ScopeCancelled(inv)
    /\ inv' = [inv EXCEPT !.pc = "raised",
                          !.err = IF @ = "none" THEN "ListenerError" ELSE @]
    /\ UNCHANGED <<hashed_hooks, triggers, nhooks, audit, hookedOn, last>>

\* the caller goes on with the result, or with the exception
Resume ==
    /\ inv.pc \in {"returned", "raised"}
    /\ inv' = IdleInvocation
    /\ UNCHANGED <<hashed_hooks, triggers, nhooks, audit, hookedOn, last>>

Next ==
    \/ \E f \in Funcs : ModuleTrigger(f)
    \/ \E n \in Names, f \in Funcs : GroupTrigger(n, f)
    \/ \E i \in Instances, n \in Names, f \in Funcs : MixinTrigger(i, n, f)
    \/ \E t \in TriggerIds, l \in Listeners, io \in HookArgs :
          DoTriggerHook(t, l, io[1], io[2])
    \/ \E t \in TriggerIds, v \in InstanceArgs, l \in Listeners,
          io \in HookArgs \cup BoundHookArgs : DoModuleHook(t, v, l, io[1], io[2])
    \/ \E n \in Names, l \in Listeners, io \in HookArgs :
          DoGroupHook(n, l, io[1], io[2])
    \/ \E s \in Instances, n \in Names, l \in Listeners, io \in BoundHookArgs :
          DoHooksAttrHook(s, n, l, io[1], io[2])
    \/ \E s \in Instances, n \in Names, l \in Listeners : DoMixinHook(s, n, l)
    \/ \E t \in TriggerIds, i \in Instances : Access(t, i)
    \/ \E t \in TriggerIds : InvokeTrigger(t)
    \/ \E t \in TriggerIds, i \in Instances : InvokeAttr(t, i)
    \/ \E i \in InstanceArgs, n \in Names : InvokeItem(i, n)
    \/ \E r \in Results : WrappedReturns(r)
    \/ WrappedFails
    \/ \E l \in Listeners : LoopSpawn(l)
    \/ LoopEnd
    \/ LoopRaises
    \/ LoopCancelled
    \/ \E l \in Listeners : ListenerStart(l)
    \/ \E l \in Listeners : ListenerDropped(l)
    \/ \E l \in Listeners : ListenerDone(l)
    \/ \E l \in Listeners : ListenerFails(l)
    \/ \E l \in Listeners : ListenerSettles(l)
    \/ JoinReturns
    \/ JoinRaises
    \/ Resume

Spec == Init /\ [][Next]_vars

\* The same program with the history of hook calls kept.
InitAudit ==
    /\ hashed_hooks = [n \in Names |-> Absent]
    /\ triggers = [t \in TriggerIds |-> NoObject]
    /\ inv = IdleInvocation
    /\ nhooks = 0
    /\ audit = TRUE
    /\ hookedOn = [l \in Listeners |-> {}]
    /\ last = "none"

SpecAudit == InitAudit /\ [][Next]_vars


\* One invocation of a declared trigger with a class-level listener, for
\* every value the wrapped callable can return.
InitNormalize ==
    /\ hashed_hooks = [n \in Names |-> IF n = "ident" THEN "t1" ELSE Absent]
    /\ triggers = [t \in TriggerIds |-> TriggerInit("f1", {"L1"})]
    /\ inv = Begin(triggers, Unbound("t1"), None)
    /\ nhooks = 1
    /\ audit = FALSE
    /\ hookedOn = [l \in Listeners |-> {}]
    /\ last = "none"

NextNormalize ==
    \/ \E r \in AllResults : WrappedReturns(r)
    \/ \E l \in Listeners : LoopSpawn(l)
    \/ LoopEnd
    \/ \E l \in Listeners : ListenerStart(l)
    \/ \E l \in Listeners : ListenerDone(l)
    \/ JoinReturns

SpecNormalize == InitNormalize /\ [][NextNormalize]_vars

----------------------------------------------------------------------------
\* Properties
----------------------------------------------------------------------------
\* the elements of a tuple, as an argument list
Elements(r) == [i \in 1..Len(r.items) |-> Obj(r.items[i])]

\* the arguments a listener gets for the result r
ArgsFor(r) == IF r.type = "tuple" THEN Elements(r) ELSE <<r>>

Finished == inv.pc \in {"returned", "raised"}

\* a step that declares name again while it holds a real Trigger
DuplicateDeclaration(n) ==
    /\ hashed_hooks[n] # Absent
    /\ triggers[hashed_hooks[n]].kind = "Trigger"
    /\ \E f \in Funcs :
          \/ GroupTrigger(n, f)
          \/ \E i \in Instances : MixinTrigger(i, n, f)

\* a step that hooks l by name on the group while name is absent
ForwardHook(n, l) ==
    /\ hashed_hooks[n] = Absent
    /\ \E io \in HookArgs : DoGroupHook(n, l, io[1], io[2])

\* C1: every completed invocation through an instance's bound view has called
\* each listener that was in the trigger's class-level set when the fan-out
\* began exactly once, with the result (the elements of a tuple result) as
\* arguments, also when the listener is in that instance's own set too.
C1_ClassListenerCalledOnce ==
    (inv.pc = "returned" /\ inv.via \in Instances) =>
        \A l \in inv.cls0 : inv.calls[l] = << ArgsFor(inv.r) >>

C1_Witness ==
    /\ inv.pc = "returned"
    /\ inv.via \in Instances
    /\ inv.view.bound
    /\ \E l \in inv.cls0 :
          /\ l \in triggers[inv.view.t].il[inv.view.key]
          /\ Len(inv.calls[l]) = 1

\* C2: a listener whose registrations all asked for the scope of instance A
\* is not called by an invocation through the bound view of another
\* instance B.
C2_OtherInstanceNotCalled ==
    \A l \in Listeners : \A A \in Instances : \A B \in Instances \ {A} :
        ( /\ hookedOn[l] # {}
          /\ \A e \in hookedOn[l] : e.scope = A /\ ~e.forward
          /\ inv.via = B
          /\ inv.view.bound )
        => inv.calls[l] = <<>>

\* C3: hooking a listener by name while the name is absent does not raise and
\* leaves the listener held under the name; declaring the name afterwards
\* does not raise and keeps the listeners held; and a completed invocation of
\* the trigger has called every class-level listener with the result.
C3_ForwardHook ==
    /\ [][\A n \in Names : \A l \in Listeners :
            ForwardHook(n, l) =>
                /\ last' = "none"
                /\ hashed_hooks'[n] # Absent
                /\ l \in triggers'[hashed_hooks'[n]].listeners]_vars
    /\ [][\A n \in Names : \A f \in Funcs :
            ( /\ hashed_hooks[n] # Absent
              /\ triggers[hashed_hooks[n]].kind = "DummyTrigger"
              /\ GroupTrigger(n, f) ) =>
                /\ last' = "none"
                /\ hashed_hooks'[n] # Absent
                /\ triggers'[hashed_hooks'[n]].kind = "Trigger"
                /\ triggers[hashed_hooks[n]].listeners
                      \subseteq triggers'[hashed_hooks'[n]].listeners]_vars
    /\ [](inv.pc = "returned" =>
            \A l \in inv.cls0 : inv.calls[l] = << ArgsFor(inv.r) >>)

\* C4: declaring a name that holds a real Trigger raises ValueError.
C4_DuplicateRaisesValueError ==
    [][\A n \in Names : DuplicateDeclaration(n) => last' = "ValueError"]_vars

\* C5: a duplicate declaration leaves the registry and the Trigger as they
\* were: the names, the entry of the name, the wrapped callable, the
\* class-level set and the instance sets.
C5_DuplicateLeavesGroup ==
    [][\A n \in Names : DuplicateDeclaration(n) =>
            /\ hashed_hooks' = hashed_hooks
            /\ triggers' = triggers]_vars

C5_Witness ==
    /\ last = "NameError"
    /\ \E n \in Names :
          /\ hashed_hooks[n] # Absent
          /\ triggers[hashed_hooks[n]].kind = "Trigger"
          /\ triggers[hashed_hooks[n]].listeners # {}
          /\ \E k \in DOMAIN triggers[hashed_hooks[n]].il :
                triggers[hashed_hooks[n]].il[k] # {}

\* C6: a listener registered only by name through instance A, without naming
\* a scope, on a trigger declared in the group: it is in the listeners of an
\* invocation A makes, a completed invocation by A has called it with the
\* result, and an invocation by another instance B does not call it.
C6_ByNameScopedToInstance ==
    /\ [][\A l \in Listeners : \A A \in Instances :
            ( /\ hookedOn[l] = {[scope |-> A, route |-> "byname", forward |-> FALSE, name |-> None]}
              /\ inv.via = A
              /\ \E r \in Results : WrappedReturns(r) )
            => l \in inv'.snap]_vars
    /\ [](\A l \in Listeners : \A A \in Instances :
            ( /\ hookedOn[l] = {[scope |-> A, route |-> "byname", forward |-> FALSE, name |-> None]}
              /\ \E n \in Names : hashed_hooks[n] = inv.view.t )
            => /\ (inv.pc = "returned" /\ inv.via = A /\ l \in inv.snap)
                     => inv.calls[l] = << ArgsFor(inv.r) >>
               /\ (inv.pc # "idle" /\ inv.via \in Instances \ {A})
                     => inv.calls[l] = <<>>)

\* C7 as amended: a listener is called with the elements of r when r is
\* exactly a tuple, of any length, and with r itself otherwise, a tuple
\* subclass included.
C7_ExactTupleUnpacked ==
    \A l \in Listeners : \A k \in 1..Len(inv.calls[l]) :
        inv.calls[l][k] = IF inv.r.type = "tuple" THEN Elements(inv.r)
                          ELSE <<inv.r>>

C7_Witness ==
    /\ inv.pc = "returned"
    /\ inv.r = Tuple(<<"x">>)
    /\ inv.calls["L1"] = << <<Obj("x")>> >>

\* C7 as stated: a listener is called with the elements of r when r is a
\* tuple of two or more elements, and with r itself otherwise.
C7_MultiValueTupleUnpacked ==
    \A l \in Listeners : \A k \in 1..Len(inv.calls[l]) :
        inv.calls[l][k] =
            IF inv.r.type \in {"tuple", "namedtuple"} /\ Len(inv.r.items) >= 2
            THEN Elements(inv.r)
            ELSE <<inv.r>>

\* C8: an invocation that returns returns the wrapped callable's result,
\* whatever the listeners returned; each listener of a non-tuple result was
\* called with that same value.
C8_ReturnsWrappedResult ==
    inv.pc = "returned" =>
        /\ inv.ret = inv.r
        /\ inv.r # NoValue
        /\ inv.r.type # "tuple" =>
              \A l \in Listeners : \A k \in 1..Len(inv.calls[l]) :
                  inv.calls[l][k] = <<inv.ret>>

C8_Witness ==
    /\ inv.pc = "returned"
    /\ inv.ret = Obj("x")
    /\ \E l \in Listeners :
          inv.task[l] = "done" /\ ListenerResult(l) # inv.ret

\* C9: when an invocation has returned or raised, every listener task it
\* started has finished: completed, failed or cancelled.
C9_JoinedBeforeReturn ==
    Finished => \A l \in Listeners : inv.task[l] \in Final

C9_Witness ==
    /\ inv.pc = "raised"
    /\ \E l \in Listeners : inv.task[l] = "failed"
    /\ \E l \in Listeners : inv.task[l] = "cancelled" /\ inv.calls[l] # <<>>

\* C10: no listener task of an invocation exists, and no listener has been
\* called, before the wrapped callable of the invocation has returned.
C10_WrappedBeforeListeners ==
    \A l \in Listeners :
        (inv.task[l] # "none" \/ inv.calls[l] # <<>>) => inv.r # NoValue

C10_Witness ==
    /\ inv.pc = "loop"
    /\ inv.r # NoValue
    /\ \E l \in Listeners : inv.task[l] = "running"
    /\ \E l \in Listeners : inv.task[l] = "none" /\ l \in inv.snap

\* the listeners the view of the invocation resolves to in this state
Resolved == ViewListeners(triggers, inv.view)

\* C11: an invocation whose wrapped callable failed has raised that failure
\* to its caller, has no result, and none of its listeners has a task or
\* has been called.
C11_WrappedFailurePropagates ==
    inv.err = "WrappedError" =>
        /\ inv.pc = "raised"
        /\ inv.ret = NoValue
        /\ inv.task = NoTasks
        /\ inv.calls = NoCalls

C11_Witness ==
    /\ inv.pc = "raised"
    /\ inv.err = "WrappedError"
    /\ inv.view.bound
    /\ Cardinality(Resolved) = 2

\* C12: once a listener of an invocation has failed, no sibling is left
\* running (those that were are being cancelled or are cancelled), the
\* invocation does not return the wrapped callable's result, and when it
\* has raised to its caller every listener task has settled.
C12_ListenerFailureCancelsSiblings ==
    (\E l \in Listeners : inv.task[l] = "failed") =>
        /\ \A k \in Listeners : inv.task[k] # "running"
        /\ inv.pc # "returned"
        /\ inv.ret = NoValue
        /\ inv.pc \in {"loop", "join", "raised"}
        /\ inv.pc = "raised" =>
              /\ inv.err = "ListenerError" \/ inv.err = "RuntimeError"
              /\ \A k \in Listeners : inv.task[k] \in Final

C12_Witness ==
    /\ inv.pc = "raised"
    /\ inv.err = "ListenerError"
    /\ inv.r # NoValue
    /\ inv.ret = NoValue
    /\ inv.task["L1"] = "failed"
    /\ inv.task["L2"] = "cancelled"
    /\ inv.calls["L2"] # <<>>

\* name has been given to a hook call while the registry had no entry for it
ForwardHooked(n) ==
    \E l \in Listeners : \E e \in hookedOn[l] : e.name = n

\* name holds a real Trigger
Declared(n) ==
    hashed_hooks[n] # Absent /\ triggers[hashed_hooks[n]].kind = "Trigger"

\* the listeners that have been hooked on name while it was absent
ForwardListeners(n) ==
    {l \in Listeners : \E e \in hookedOn[l] : e.name = n}

\* C13: a name that has been hooked and is not declared has a placeholder as
\* its registry entry, and an invocation of a placeholder, through the group
\* or through an instance's bound group, has raised TypeError ("not been
\* defined yet") without starting a listener.
C13_PlaceholderInvocationFails ==
    /\ \A n \in Names :
          (ForwardHooked(n) /\ ~Declared(n)) =>
              /\ hashed_hooks[n] # Absent
              /\ triggers[hashed_hooks[n]].kind = "DummyTrigger"
    /\ (inv.pc # "idle" /\ triggers[inv.view.t].kind = "DummyTrigger") =>
          /\ inv.pc = "raised"
          /\ inv.err = "TypeError"
          /\ inv.task = NoTasks
          /\ inv.calls = NoCalls

\* the Trigger t after l is hooked on it with the arguments io, by
\* Trigger.hook and by the module-level hook
Hooked(t, l, io) ==
    {TriggerHook(triggers, t, l, io[1], io[2])[t],
     ModuleHook(triggers, Unbound(t), io[1], io[2], l)[t]}

\* the set a Trigger keeps under the key k, empty when it has none yet
InstanceSet(tr, k) == IF k \in DOMAIN tr.il THEN tr.il[k] ELSE {}

HookedOnlyOn(l, A) ==
    /\ hookedOn[l] # {}
    /\ \A e \in hookedOn[l] : e.scope = A /\ ~e.forward

\* C15: a listener hooked only on instance A is not in the listener set the
\* trigger uses for a distinct instance B, B == A included: the bound views
\* of two distinct instances never read the same set.
C15_IdentityKeyed ==
    \A t \in TriggerIds : \A l \in Listeners :
        \A A \in Instances : \A B \in Instances \ {A} :
            (triggers[t].kind = "Trigger" /\ HookedOnlyOn(l, A)) =>
                l \notin InstanceSet(GetState(triggers, Unbound(t), B)[t],
                                     GetView(triggers, Unbound(t), B).key)

\* C16: in every state, for every Trigger t and instance A: a bound-view
\* access by A keeps the class-level set and every existing instance set as
\* they are and gives A an entry; the view's listeners are the union of the
\* class-level set and A's set; a listener hooked through one bound view of
\* A is in the listeners of that view, of a view of A obtained later and of
\* a view obtained before, and the listeners an invocation in progress read
\* are among those its view resolves to now.
C16_BoundViewReadsSharedSets ==
    /\ \A t \in TriggerIds : \A A \in Instances : \A l \in Listeners :
          triggers[t].kind = "Trigger" =>
              LET trs1 == GetState(triggers, Unbound(t), A)
                  v1 == GetView(triggers, Unbound(t), A)
                  trs2 == ViewHook(trs1, v1, l)
                  trs3 == GetState(trs2, Unbound(t), A)
                  v3 == GetView(trs2, Unbound(t), A)
              IN  /\ trs1[t].listeners = triggers[t].listeners
                  /\ v1.bound /\ v1.key \in DOMAIN trs1[t].il
                  /\ \A k \in DOMAIN triggers[t].il :
                        /\ k \in DOMAIN trs1[t].il
                        /\ trs1[t].il[k] = triggers[t].il[k]
                  /\ v1.key \notin DOMAIN triggers[t].il => trs1[t].il[v1.key] = {}
                  /\ ViewListeners(trs1, v1) =
                        triggers[t].listeners \cup InstanceSet(triggers[t], v1.key)
                  /\ trs3 = trs2
                  /\ l \in ViewListeners(trs3, v1)
                  /\ l \in ViewListeners(trs3, v3)
                  /\ ViewListeners(trs3, v3) =
                        ViewListeners(trs1, v1) \cup {l}
                  /\ inv.view = v1 /\ inv.pc # "idle" =>
                        l \in ViewListeners(trs2, inv.view)
    /\ (inv.view.bound /\ inv.pc \in {"loop", "join", "returned"}) =>
          /\ inv.view.key \in DOMAIN triggers[inv.view.t].il
          /\ inv.cls0 \subseteq inv.snap
          /\ inv.snap \subseteq Resolved

C16_Witness ==
    /\ inv.pc = "loop"
    /\ inv.view.bound
    /\ inv.via = "a"
    /\ Cardinality(DOMAIN triggers[inv.view.t].il) = 2
    /\ triggers[inv.view.t].listeners = {"L1"}
    /\ triggers[inv.view.t].il["a"] = {"L2"}
    /\ inv.snap = {"L1", "L2"}

\* a step that declares name with the function f
Declaration(n, f) ==
    \/ GroupTrigger(n, f)
    \/ \E i \in Instances : MixinTrigger(i, n, f)

\* C17: declaring a name that has been hooked and not declared does not
\* raise and leaves the registry mapping the name to a real Trigger that
\* wraps the declared function and whose class-level listeners are exactly
\* the listeners hooked on the name before.
C17_PlaceholderReplaced ==
    [][\A n \in Names :
          (ForwardHooked(n) /\ ~Declared(n)) =>
              \A f \in Funcs :
                  Declaration(n, f) =>
                      /\ last' = "none"
                      /\ hashed_hooks'[n] # Absent
                      /\ triggers'[hashed_hooks'[n]].kind = "Trigger"
                      /\ triggers'[hashed_hooks'[n]].wrapped = f
                      /\ triggers'[hashed_hooks'[n]].listeners =
                            ForwardListeners(n)]_vars

\* C18: an invocation does not fail because a listener was hooked while its
\* loop was spawning, and an invocation that has returned has called exactly
\* the listeners that were registered when its loop began.
C18_HookDuringLoopIsSafe ==
    /\ inv.err # "RuntimeError"
    /\ inv.pc = "returned" =>
          \A l \in Listeners : inv.calls[l] # <<>> <=> l \in inv.snap

\* C19: an invocation of the Trigger itself starts only listeners that are
\* in the class-level set, so none that is only in an instance's set, and
\* one that has returned has called each listener that was in the
\* class-level set when its loop began once, and no other.
C19_UnboundCallsClassListenersOnly ==
    (~inv.view.bound /\ inv.pc # "idle") =>
        /\ \A l \in Listeners :
              (inv.task[l] # "none" \/ inv.calls[l] # <<>>) =>
                  /\ l \in inv.cls0
                  /\ l \in triggers[inv.view.t].listeners
        /\ inv.pc = "returned" =>
              \A l \in Listeners :
                  inv.calls[l] = IF l \in inv.cls0 THEN << ArgsFor(inv.r) >>
                                 ELSE <<>>

C19_Witness ==
    /\ inv.pc = "returned"
    /\ ~inv.view.bound
    /\ inv.cls0 = {"L1"}
    /\ inv.calls["L1"] # <<>>
    /\ \E k \in DOMAIN triggers[inv.view.t].il :
          "L2" \in triggers[inv.view.t].il[k]
    /\ inv.calls["L2"] = <<>>

\* C20: a listener whose only registration went by name through instance A,
\* without naming a scope, while the name was absent: once the name is
\* declared, a completed invocation of the name's trigger by A has called
\* it with the result, and an invocation by another instance B does not
\* call it.
C20_ForwardHookStaysScoped ==
    \A l \in Listeners : \A A \in Instances : \A n \in Names :
        ( /\ hookedOn[l] = {[scope |-> A, route |-> "byname",
                             forward |-> TRUE, name |-> n]}
          /\ Declared(n)
          /\ inv.view.t = hashed_hooks[n]
          /\ inv.view.bound )
        => /\ (inv.pc = "returned" /\ inv.via = A)
                 => inv.calls[l] = << ArgsFor(inv.r) >>
           /\ (inv.pc # "idle" /\ inv.via \in Instances \ {A})
                 => inv.calls[l] = <<>>

====
